---- MODULE Spec2Model ----
(***************************************************************************)
(* Presence registry and message broadcast protocol of the chat server     *)
(* (src/api/index.ts).  Strings that the code inspects (trim, emptiness)    *)
(* are sequences of one-character strings.                                  *)
(***************************************************************************)
EXTENDS Integers, Sequences, FiniteSets, TLC

\* ------------------------------------------------------------------ bounds
\* connections the transport opens
MaxSockets == 2
\* sendMessage events that pass validation
MaxSends == 2
\* the latest server time that is read
MaxClock == 1

SocketIds == 1..MaxSockets

\* ------------------------------------------------------------------ inputs
\* userId arguments of newUser: "", " ", "a", "b"
UserIds == { <<>>, <<" ">>, <<"a">>, <<"b">> }
\* a sendMessage event emitted without an argument
Undefined == [undefined |-> TRUE]
\* sendMessage payloads: none, an empty senderId, an empty text, a
\* whitespace-only text, an ordinary message
Payloads ==
  { Undefined,
    [senderId |-> <<>>, text |-> <<"h", "i">>],
    [senderId |-> <<"a">>, text |-> <<>>],
    [senderId |-> <<"a">>, text |-> <<" ">>],
    [senderId |-> <<"a">>, text |-> <<"h", "i">>] }

\* ------------------------------------------------------------------ strings
IsSpace(ch) == ch = " "

RECURSIVE TrimStart(_)
TrimStart(s) ==
  IF Len(s) > 0 /\ IsSpace(s[1]) THEN TrimStart(Tail(s)) ELSE s

RECURSIVE TrimEnd(_)
TrimEnd(s) ==
  IF Len(s) > 0 /\ IsSpace(s[Len(s)]) THEN TrimEnd(SubSeq(s, 1, Len(s) - 1)) ELSE s

\* String.prototype.trim
trim(s) == TrimEnd(TrimStart(s))

\* !s for a string s
Falsy(s) == s = <<>>

\* "system"
SystemId == <<"s", "y", "s", "t", "e", "m">>
\* "Error sending message. Please try again."
ErrorText ==
  <<"E", "r", "r", "o", "r", " ", "s", "e", "n", "d", "i", "n", "g", " ",
    "m", "e", "s", "s", "a", "g", "e", ".", " ", "P", "l", "e", "a", "s",
    "e", " ", "t", "r", "y", " ", "a", "g", "a", "i", "n", ".">>

\* ------------------------------------------------------------------ state
VARIABLES
  sockets,      \* socket id -> "unopened" | "open" | "closed"
  onlineUsers,  \* the in-memory registry, a sequence of [socketId, userId]
  messages,     \* the "messages" collection, documents in order of insertion
  handlers,     \* sendMessage handlers that reached the await, in admission order
  now,          \* the last value read from the server clock
  claimed,      \* open socket id -> the userId of its latest accepted newUser
  out,          \* the events emitted by the last step, in order
  roster,       \* socket id -> the usersOnline data it received last, if any
  last          \* the event the last step handled, with the registry and the
                \* number of sendMessage handlers it found

vars == <<sockets, onlineUsers, messages, handlers, now, claimed, out, roster,
          last>>

\* no accepted newUser yet (the empty userId is never accepted)
NoUser == <<>>

\* no usersOnline event received yet
NoRoster == <<>>

\* sockets that io.emit reaches
Connected == { c \in SocketIds : sockets[c] = "open" }

\* io.emit(event, data)
IoEmit(event, data, conn) ==
  [event |-> event, scope |-> "io", socket |-> 0, recipients |-> conn, data |-> data]

\* socket.emit(event, data): a closed socket discards the packet
SocketEmit(c, event, data, conn) ==
  [event |-> event, scope |-> "socket", socket |-> c,
   recipients |-> {c} \cap conn, data |-> data]

\* what each socket holds after the events are delivered in order: the data
\* of the last usersOnline event it is a recipient of
RECURSIVE Delivered(_, _)
Delivered(held, events) ==
  IF events = <<>>
    THEN held
    ELSE Delivered(
           [c \in SocketIds |->
              IF events[1].event = "usersOnline" /\ c \in events[1].recipients
                THEN << events[1].data >>
                ELSE held[c]],
           Tail(events))

\* onlineUsers.find(user => user.userId === userId) is an entry
ExistingUser(users, userId) == \E i \in 1..Len(users) : users[i].userId = userId

\* faulty variant of MapSocketId: the entry is removed and pushed again
MapSocketId_MoveToEnd(users, userId, socketId) ==
  Append(SelectSeq(users, LAMBDA user : user.userId # userId),
         [socketId |-> socketId, userId |-> userId])

\* onlineUsers.map(user => user.userId === userId ? {...user, socketId} : user)
MapSocketId(users, userId, socketId) ==
  [i \in 1..Len(users) |->
     IF users[i].userId = userId
       THEN [users[i] EXCEPT !.socketId = socketId]
       ELSE users[i]]

\* faulty variant of FilterSocketId: the predicate is inverted
FilterSocketId_Inverted(users, socketId) ==
  SelectSeq(users, LAMBDA user : user.socketId = socketId)

\* faulty variant of FilterSocketId: only the first entry of the socket goes
FilterSocketId_FirstOnly(users, socketId) ==
  IF \E k \in 1..Len(users) : users[k].socketId = socketId
    THEN LET first == CHOOSE k \in 1..Len(users) :
                        /\ users[k].socketId = socketId
                        /\ \A j \in 1..(k - 1) : users[j].socketId # socketId
         IN  SubSeq(users, 1, first - 1) \o SubSeq(users, first + 1, Len(users))
    ELSE users

\* onlineUsers.filter(user => user.socketId !== socketId)
FilterSocketId(users, socketId) ==
  SelectSeq(users, LAMBDA user : user.socketId # socketId)

Init ==
  /\ sockets = [c \in SocketIds |-> "unopened"]
  /\ onlineUsers = <<>>
  /\ messages = <<>>
  /\ handlers = <<>>
  /\ now = 0
  /\ claimed = [c \in SocketIds |-> NoUser]
  /\ out = <<>>
  /\ roster = [c \in SocketIds |-> NoRoster]
  /\ last = [op |-> "init"]

\* io.on("connection"): the socket is opened and its handlers are installed
Connection(c) ==
  /\ sockets[c] = "unopened"
  /\ sockets' = [sockets EXCEPT ![c] = "open"]
  /\ out' = <<>>
  /\ last' = [op |-> "connection", socket |-> c]
  /\ UNCHANGED <<onlineUsers, messages, handlers, now, claimed>>
  /\ roster' = Delivered(roster, out')

\* faulty variant of Register: the entry is pushed without looking for the userId
Register_NoFind(users, c, userId) ==
  Append(users, [socketId |-> c, userId |-> userId])

\* faulty variant of Register: a new entry is put in front
Register_Unshift(users, c, userId) ==
  IF ExistingUser(users, userId)
    THEN MapSocketId(users, userId, c)
    ELSE << [socketId |-> c, userId |-> userId] >> \o users

\* the registry after newUser(userId) on socket c passed validation
Register(users, c, userId) ==
  IF ExistingUser(users, userId)
    THEN MapSocketId(users, userId, c)
    ELSE Append(users, [socketId |-> c, userId |-> userId])

\* faulty variant of InvalidUserId: the userId is not trimmed
InvalidUserId_NoTrim(userId) == Falsy(userId)

\* the validation of newUser
InvalidUserId(userId) == Falsy(userId) \/ trim(userId) = <<>>

\* faulty variant of NewUser: the socket that held the userId is closed
NewUser_ClosePrevious(c, userId) ==
  /\ sockets[c] = "open"
  /\ last' = [op |-> "newUser", socket |-> c, userId |-> userId,
               users |-> onlineUsers]
  /\ IF InvalidUserId(userId)
       THEN /\ out' = <<>>
            /\ UNCHANGED <<onlineUsers, claimed>>
       ELSE /\ onlineUsers' = Register(onlineUsers, c, userId)
            /\ claimed' = [claimed EXCEPT ![c] = userId]
            /\ out' = << IoEmit("usersOnline", onlineUsers', Connected) >>
  /\ sockets' = [d \in SocketIds |->
       IF /\ ~InvalidUserId(userId)
          /\ d # c
          /\ \E k \in 1..Len(onlineUsers) :
               onlineUsers[k] = [socketId |-> d, userId |-> userId]
         THEN "closed"
         ELSE sockets[d]]
  /\ UNCHANGED <<messages, handlers, now>>
  /\ roster' = Delivered(roster, out')

\* faulty variant of NewUser: the roster is emitted to the registering socket only
NewUser_ReplyOnly(c, userId) ==
  /\ sockets[c] = "open"
  /\ last' = [op |-> "newUser", socket |-> c, userId |-> userId,
               users |-> onlineUsers]
  /\ IF InvalidUserId(userId)
       THEN /\ out' = <<>>
            /\ UNCHANGED <<onlineUsers, claimed>>
       ELSE /\ onlineUsers' = Register(onlineUsers, c, userId)
            /\ claimed' = [claimed EXCEPT ![c] = userId]
            /\ out' = << SocketEmit(c, "usersOnline", onlineUsers', Connected) >>
  /\ UNCHANGED <<sockets, messages, handlers, now>>
  /\ roster' = Delivered(roster, out')

\* socket.on("newUser")
NewUser(c, userId) ==
  /\ sockets[c] = "open"
  /\ last' = [op |-> "newUser", socket |-> c, userId |-> userId,
               users |-> onlineUsers]
  /\ IF InvalidUserId(userId)
       THEN /\ out' = <<>>
            /\ UNCHANGED <<onlineUsers, claimed>>
       ELSE /\ onlineUsers' = Register(onlineUsers, c, userId)
            /\ claimed' = [claimed EXCEPT ![c] = userId]
            /\ out' = << IoEmit("usersOnline", onlineUsers', Connected) >>
  /\ UNCHANGED <<sockets, messages, handlers, now>>
  /\ roster' = Delivered(roster, out')

\* faulty variant of Disconnect: the roster is emitted only when an entry
\* was found
Disconnect_OnlyIfFound(c) ==
  /\ sockets[c] = "open"
  /\ sockets' = [sockets EXCEPT ![c] = "closed"]
  /\ onlineUsers' = FilterSocketId(onlineUsers, c)
  /\ out' = IF onlineUsers' # onlineUsers
              THEN << IoEmit("usersOnline", onlineUsers', Connected \ {c}) >>
              ELSE <<>>
  /\ claimed' = [claimed EXCEPT ![c] = NoUser]
  /\ last' = [op |-> "disconnect", socket |-> c, claimed |-> claimed[c],
               users |-> onlineUsers]
  /\ UNCHANGED <<messages, handlers, now>>
  /\ roster' = [Delivered(roster, out') EXCEPT ![c] = NoRoster]

\* socket.on("disconnect"): the socket has left the namespace when the
\* handler runs
Disconnect(c) ==
  /\ sockets[c] = "open"
  /\ sockets' = [sockets EXCEPT ![c] = "closed"]
  /\ onlineUsers' = FilterSocketId(onlineUsers, c)
  /\ out' = << IoEmit("usersOnline", onlineUsers', Connected \ {c}) >>
  /\ claimed' = [claimed EXCEPT ![c] = NoUser]
  /\ last' = [op |-> "disconnect", socket |-> c, claimed |-> claimed[c],
               users |-> onlineUsers]
  /\ UNCHANGED <<messages, handlers, now>>
  /\ roster' = [Delivered(roster, out') EXCEPT ![c] = NoRoster]

\* Date.now(): the clock never runs backwards and is read up to MaxClock
ClockReadings == { t \in now..(now + 1) : t <= MaxClock }

\* the synthetic message of the catch block of sendMessage
SystemMessage(t) == [senderId |-> SystemId, text |-> ErrorText, timestamp |-> t]

\* faulty variant of Broadcast: the message is emitted twice
Broadcast_Twice(message, id, conn) ==
  LET e == IoEmit("newMessage",
                  [senderId |-> message.senderId,
                   text |-> message.text,
                   timestamp |-> message.timestamp,
                   id |-> id],
                  conn)
  IN  << e, e >>

\* faulty variant of Broadcast: the roster is emitted with the message
Broadcast_WithRoster(message, id, conn) ==
  << IoEmit("newMessage",
            [senderId |-> message.senderId,
             text |-> message.text,
             timestamp |-> message.timestamp,
             id |-> id],
            conn),
     IoEmit("usersOnline", onlineUsers, conn) >>

\* io.emit("newMessage", {...message, id: messageRef.id})
Broadcast(message, id, conn) ==
  << IoEmit("newMessage",
            [senderId |-> message.senderId,
             text |-> message.text,
             timestamp |-> message.timestamp,
             id |-> id],
            conn) >>

\* faulty variant of CatchBlock: the error is emitted with io.emit
CatchBlock_ToAll(c, t, conn) ==
  << IoEmit("newMessage", SystemMessage(t), conn) >>

\* the catch block of sendMessage: the error goes to the sender only
CatchBlock(c, t, conn) ==
  << SocketEmit(c, "newMessage", SystemMessage(t), conn) >>

\* the number of events of a scope among the emitted events
Count(events, scope) == Len(SelectSeq(events, LAMBDA e : e.scope = scope))

\* faulty variant of InvalidPayload: the text is not looked at
InvalidPayload_SenderOnly(payload) == Falsy(payload.senderId)

\* the validation of a sendMessage payload
InvalidPayload(payload) == Falsy(payload.senderId) \/ Falsy(payload.text)

\* faulty variant of SendMessage: a payload is accepted only from the socket
\* registered under its senderId
SendMessage_Registered(c, payload) ==
  /\ sockets[c] = "open"
  /\ IF payload = Undefined
       THEN \* destructuring undefined throws: the catch block runs
            \E t \in ClockReadings :
              /\ now' = t
              /\ out' = CatchBlock(c, t, Connected)
              /\ last' = [op |-> "sendMessage", socket |-> c, payload |-> payload,
                          users |-> onlineUsers, sends |-> Len(handlers)]
              /\ UNCHANGED handlers
       ELSE IF \/ InvalidPayload(payload)
               \/ claimed[c] # payload.senderId
         THEN /\ out' = <<>>
              /\ last' = [op |-> "sendMessage", socket |-> c, payload |-> payload,
                          users |-> onlineUsers, sends |-> Len(handlers)]
              /\ UNCHANGED <<handlers, now>>
         ELSE /\ Len(handlers) < MaxSends
              /\ \E began \in ClockReadings :
                   \E t \in { u \in began..(began + 1) : u <= MaxClock } :
                     /\ now' = t
                     /\ handlers' = Append(handlers,
                          [socket |-> c,
                           message |-> [senderId |-> payload.senderId,
                                        text |-> payload.text,
                                        timestamp |-> t],
                           pc |-> "await",
                           id |-> 0,
                           broadcasts |-> 0,
                           errors |-> 0])
                     /\ last' = [op |-> "sendMessage", socket |-> c,
                                 payload |-> payload, users |-> onlineUsers,
                                 sends |-> Len(handlers), began |-> began]
              /\ out' = <<>>
  /\ UNCHANGED <<sockets, onlineUsers, messages, claimed>>
  /\ roster' = Delivered(roster, out')

\* socket.on("sendMessage"), up to the await of add(message); began is the
\* server time at which an accepted payload's handler is entered
SendMessage(c, payload) ==
  /\ sockets[c] = "open"
  /\ IF payload = Undefined
       THEN \* destructuring undefined throws: the catch block runs
            \E t \in ClockReadings :
              /\ now' = t
              /\ out' = CatchBlock(c, t, Connected)
              /\ last' = [op |-> "sendMessage", socket |-> c, payload |-> payload,
                          users |-> onlineUsers, sends |-> Len(handlers)]
              /\ UNCHANGED handlers
       ELSE IF InvalidPayload(payload)
         THEN /\ out' = <<>>
              /\ last' = [op |-> "sendMessage", socket |-> c, payload |-> payload,
                          users |-> onlineUsers, sends |-> Len(handlers)]
              /\ UNCHANGED <<handlers, now>>
         ELSE /\ Len(handlers) < MaxSends
              /\ \E began \in ClockReadings :
                   \E t \in { u \in began..(began + 1) : u <= MaxClock } :
                     /\ now' = t
                     /\ handlers' = Append(handlers,
                          [socket |-> c,
                           message |-> [senderId |-> payload.senderId,
                                        text |-> payload.text,
                                        timestamp |-> t],
                           pc |-> "await",
                           id |-> 0,
                           broadcasts |-> 0,
                           errors |-> 0])
                     /\ last' = [op |-> "sendMessage", socket |-> c,
                                 payload |-> payload, users |-> onlineUsers,
                                 sends |-> Len(handlers), began |-> began]
              /\ out' = <<>>
  /\ UNCHANGED <<sockets, onlineUsers, messages, claimed>>
  /\ roster' = Delivered(roster, out')

\* the identifier the collection gives a new document
NewDocId == Len(messages) + 1

\* faulty variant of AddResolves: the broadcast does not wait for the document
AddResolves_Unsaved(i) ==
  /\ i \in 1..Len(handlers)
  /\ handlers[i].pc = "await"
  /\ out' = Broadcast(handlers[i].message, NewDocId, Connected)
  /\ handlers' = [handlers EXCEPT
       ![i].pc = "done",
       ![i].id = NewDocId,
       ![i].broadcasts = @ + Count(out', "io"),
       ![i].errors = @ + Count(out', "socket")]
  /\ last' = [op |-> "add", handler |-> i, ok |-> TRUE]
  /\ UNCHANGED <<sockets, onlineUsers, messages, now, claimed>>
  /\ roster' = Delivered(roster, out')

\* faulty variant of AddResolves: a document is stored only after the
\* documents of all earlier handlers
AddResolves_InOrder(i) ==
  /\ i \in 1..Len(handlers)
  /\ handlers[i].pc = "await"
  /\ \A j \in 1..(i - 1) : handlers[j].pc # "await"
  /\ messages' = Append(messages,
       [id |-> NewDocId,
        senderId |-> handlers[i].message.senderId,
        text |-> handlers[i].message.text,
        timestamp |-> handlers[i].message.timestamp])
  /\ out' = Broadcast(handlers[i].message, NewDocId, Connected)
  /\ handlers' = [handlers EXCEPT
       ![i].pc = "done",
       ![i].id = NewDocId,
       ![i].broadcasts = @ + Count(out', "io"),
       ![i].errors = @ + Count(out', "socket")]
  /\ last' = [op |-> "add", handler |-> i, ok |-> TRUE]
  /\ UNCHANGED <<sockets, onlineUsers, now, claimed>>
  /\ roster' = Delivered(roster, out')

\* faulty variant of AddResolves: the timestamp is read when the document is
\* stored
AddResolves_Restamp(i) ==
  /\ i \in 1..Len(handlers)
  /\ handlers[i].pc = "await"
  /\ messages' = Append(messages,
       [id |-> NewDocId,
        senderId |-> handlers[i].message.senderId,
        text |-> handlers[i].message.text,
        timestamp |-> now])
  /\ handlers' = [handlers EXCEPT
       ![i].pc = "done",
       ![i].id = NewDocId,
       ![i].message.timestamp = now,
       ![i].broadcasts = @ + 1]
  /\ out' = Broadcast(handlers'[i].message, NewDocId, Connected)
  /\ last' = [op |-> "add", handler |-> i, ok |-> TRUE]
  /\ UNCHANGED <<sockets, onlineUsers, now, claimed>>
  /\ roster' = Delivered(roster, out')

\* faulty variant of AddResolves: the handler of a closed socket is abandoned
AddResolves_IfSenderOpen(i) ==
  /\ i \in 1..Len(handlers)
  /\ handlers[i].pc = "await"
  /\ sockets[handlers[i].socket] = "open"
  /\ messages' = Append(messages,
       [id |-> NewDocId,
        senderId |-> handlers[i].message.senderId,
        text |-> handlers[i].message.text,
        timestamp |-> handlers[i].message.timestamp])
  /\ out' = Broadcast(handlers[i].message, NewDocId, Connected)
  /\ handlers' = [handlers EXCEPT
       ![i].pc = "done",
       ![i].id = NewDocId,
       ![i].broadcasts = @ + Count(out', "io"),
       ![i].errors = @ + Count(out', "socket")]
  /\ last' = [op |-> "add", handler |-> i, ok |-> TRUE]
  /\ UNCHANGED <<sockets, onlineUsers, now, claimed>>
  /\ roster' = Delivered(roster, out')

\* add(message) succeeds: the document is stored, the promise resolves with
\* its reference and the handler runs on to the broadcast
AddResolves(i) ==
  /\ i \in 1..Len(handlers)
  /\ handlers[i].pc = "await"
  /\ messages' = Append(messages,
       [id |-> NewDocId,
        senderId |-> handlers[i].message.senderId,
        text |-> handlers[i].message.text,
        timestamp |-> handlers[i].message.timestamp])
  /\ out' = Broadcast(handlers[i].message, NewDocId, Connected)
  /\ handlers' = [handlers EXCEPT
       ![i].pc = "done",
       ![i].id = NewDocId,
       ![i].broadcasts = @ + Count(out', "io"),
       ![i].errors = @ + Count(out', "socket")]
  /\ last' = [op |-> "add", handler |-> i, ok |-> TRUE]
  /\ UNCHANGED <<sockets, onlineUsers, now, claimed>>
  /\ roster' = Delivered(roster, out')

\* faulty variant of AddRejects: a failed add is called again
AddRejects_Retry(i) ==
  /\ i \in 1..Len(handlers)
  /\ handlers[i].pc = "await"
  /\ out' = <<>>
  /\ last' = [op |-> "add", handler |-> i, ok |-> FALSE]
  /\ UNCHANGED <<sockets, onlineUsers, messages, handlers, now, claimed>>
  /\ roster' = Delivered(roster, out')

\* add(message) fails: nothing is stored, the promise rejects and the catch
\* block runs
AddRejects(i) ==
  /\ i \in 1..Len(handlers)
  /\ handlers[i].pc = "await"
  /\ \E t \in ClockReadings :
       /\ now' = t
       /\ out' = CatchBlock(handlers[i].socket, t, Connected)
  /\ handlers' = [handlers EXCEPT
       ![i].pc = "failed",
       ![i].broadcasts = @ + Count(out', "io"),
       ![i].errors = @ + Count(out', "socket")]
  /\ last' = [op |-> "add", handler |-> i, ok |-> FALSE]
  /\ UNCHANGED <<sockets, onlineUsers, messages, claimed>>
  /\ roster' = Delivered(roster, out')

Next ==
  \/ \E c \in SocketIds : Connection(c)
  \/ \E c \in SocketIds, userId \in UserIds : NewUser(c, userId)
  \/ \E c \in SocketIds, payload \in Payloads : SendMessage(c, payload)
  \/ \E i \in 1..MaxSends : AddResolves(i)
  \/ \E i \in 1..MaxSends : AddRejects(i)
  \/ \E c \in SocketIds : Disconnect(c)

Spec == Init /\ [][Next]_vars

\* every add(message) that was called returns: its promise is settled
AddReturns == \A i \in 1..MaxSends : WF_vars(AddResolves(i) \/ AddRejects(i))

\* the message path alone: connections that send messages and never register
NextMessages ==
  \/ \E c \in SocketIds : Connection(c)
  \/ \E c \in SocketIds, payload \in Payloads : SendMessage(c, payload)
  \/ \E i \in 1..MaxSends : AddResolves(i)
  \/ \E i \in 1..MaxSends : AddRejects(i)
  \/ \E c \in SocketIds : Disconnect(c)

SpecMessages == Init /\ [][NextMessages]_vars /\ AddReturns

\* ---------------------------------------------------------------- history
\* documents of the collection when the history is read
MaxDocs == 3
\* the latest timestamp of a stored document
MaxStamp == 2
\* the limit used when none is given
DefaultLimit == 100

\* the limit of a request: none, or a number
Limits == { <<>> } \cup { << n >> : n \in 0..(MaxDocs + 1) }

\* the collection holds any documents, each under its own id
Collections ==
  UNION { [1..n -> 0..MaxStamp] : n \in 0..MaxDocs }

StoredDocs(stamps) ==
  [k \in 1..Len(stamps) |->
     [id |-> k, senderId |-> <<"a">>, text |-> <<"h", "i">>,
      timestamp |-> stamps[k]]]

\* the document that orderBy("timestamp", "desc") puts first: the greatest
\* timestamp, and among equal timestamps the greatest document id
Newest(docs) ==
  CHOOSE d \in docs :
    \A e \in docs :
      \/ e.timestamp < d.timestamp
      \/ (e.timestamp = d.timestamp /\ e.id <= d.id)

\* orderBy("timestamp", "desc").limit(limit).get(), pushed in snapshot order
RECURSIVE OrderByDescLimit(_, _)
OrderByDescLimit(docs, limit) ==
  IF docs = {} \/ limit <= 0
    THEN <<>>
    ELSE << Newest(docs) >> \o OrderByDescLimit(docs \ {Newest(docs)}, limit - 1)

\* Array.prototype.reverse
Reverse(seq) == [k \in 1..Len(seq) |-> seq[Len(seq) + 1 - k]]

\* the documents of the collection
Docs == { messages[k] : k \in 1..Len(messages) }

\* parseInt(req.query.limit) || 100
ParsedLimit(q) == IF q = <<>> \/ q[1] = 0 THEN DefaultLimit ELSE q[1]

\* app.get("/api/messages"): the response body's messages
GetMessages(q) ==
  /\ q \in Limits
  /\ last' = [op |-> "getMessages", limit |-> q,
               messages |-> Reverse(OrderByDescLimit(Docs, ParsedLimit(q)))]
  /\ out' = <<>>
  /\ UNCHANGED <<sockets, onlineUsers, messages, handlers, now, claimed>>
  /\ roster' = Delivered(roster, out')

\* the default parameter of getAllMessages(limit = 100)
ParameterLimit(a) == IF a = <<>> THEN DefaultLimit ELSE a[1]

\* getAllMessages(limit), called with a positive limit or with none
GetAllMessages(a) ==
  /\ a \in Limits \ { << 0 >> }
  /\ last' = [op |-> "getAllMessages", limit |-> a,
               messages |-> Reverse(OrderByDescLimit(Docs, ParameterLimit(a)))]
  /\ out' = <<>>
  /\ UNCHANGED <<sockets, onlineUsers, messages, handlers, now, claimed>>
  /\ roster' = Delivered(roster, out')

InitHistory ==
  /\ sockets = [c \in SocketIds |-> "unopened"]
  /\ onlineUsers = <<>>
  /\ \E stamps \in Collections : messages = StoredDocs(stamps)
  /\ handlers = <<>>
  /\ now = MaxStamp
  /\ claimed = [c \in SocketIds |-> NoUser]
  /\ out = <<>>
  /\ roster = [c \in SocketIds |-> NoRoster]
  /\ last = [op |-> "init"]

NextHistory ==
  \/ \E q \in Limits : GetMessages(q)
  \/ \E a \in Limits : GetAllMessages(a)

SpecHistory == InitHistory /\ [][NextHistory]_vars

\* ---------------------------------------------------------------- claims
\* the string is empty or consists of white space only
Blank(s) == \A k \in 1..Len(s) : s[k] = " "

\* the socket ids the registry maps userId to, in roster order
SocketsOf(users, userId) ==
  LET hits == SelectSeq(users, LAMBDA user : user.userId = userId)
  IN  [k \in 1..Len(hits) |-> hits[k].socketId]

\* the last step handled a sendMessage event whose payload is an object
SentObject ==
  /\ last.op = "sendMessage"
  /\ last.payload # Undefined

\* the handler the last step resumed
Resumed == handlers[last.handler]

\* C1: the registry never holds two entries with the same userId, after any
\* sequence of newUser, sendMessage and disconnect events.
C1_UniqueUserIds ==
  \A i, j \in 1..Len(onlineUsers) :
    i # j => onlineUsers[i].userId # onlineUsers[j].userId

\* a userId that has an entry registers again while the registry holds two
C1_Witness ==
  /\ last.op = "newUser"
  /\ SocketsOf(last.users, last.userId) # <<>>
  /\ Len(onlineUsers) = 2

\* C2: the registry never holds two entries with the same socketId, also
\* when one open connection registers several userIds.
C2_UniqueSocketIds ==
  \A i, j \in 1..Len(onlineUsers) :
    i # j => onlineUsers[i].socketId # onlineUsers[j].socketId

\* C3: every newMessage emitted to all connections carries an id and the
\* collection holds that message under that id; a message whose add is
\* pending or has failed has not been emitted to all connections.
C3_PersistThenBroadcast ==
  /\ \A k \in 1..Len(out) :
       (out[k].event = "newMessage" /\ out[k].scope = "io") =>
         /\ "id" \in DOMAIN out[k].data
         /\ \E d \in 1..Len(messages) :
              messages[d] = [id |-> out[k].data.id,
                             senderId |-> out[k].data.senderId,
                             text |-> out[k].data.text,
                             timestamp |-> out[k].data.timestamp]
  /\ \A i \in 1..Len(handlers) :
       handlers[i].pc \in {"await", "failed"} => handlers[i].broadcasts = 0

\* a message has been broadcast while another add is still pending
C3_Witness ==
  /\ \E k \in 1..Len(out) : out[k].event = "newMessage" /\ out[k].scope = "io"
  /\ \E i \in 1..Len(handlers) : handlers[i].pc = "await"

\* C4: an accepted sendMessage whose add succeeds is followed by exactly one
\* newMessage to all open connections, with the payload's senderId and text,
\* a timestamp not before the handler began and the id of the stored
\* document, and by no private error.
C4_OneBroadcast ==
  /\ (SentObject /\ last.payload.senderId # <<>> /\ last.payload.text # <<>>) =>
       /\ Len(handlers) = last.sends + 1
       /\ handlers[Len(handlers)].socket = last.socket
       /\ handlers[Len(handlers)].message.senderId = last.payload.senderId
       /\ handlers[Len(handlers)].message.text = last.payload.text
       /\ handlers[Len(handlers)].message.timestamp >= last.began
  /\ (last.op = "add" /\ last.ok) =>
       /\ out = << [event |-> "newMessage", scope |-> "io", socket |-> 0,
                    recipients |-> Connected,
                    data |-> [senderId |-> Resumed.message.senderId,
                              text |-> Resumed.message.text,
                              timestamp |-> Resumed.message.timestamp,
                              id |-> Resumed.id]] >>
       /\ messages[Len(messages)].id = Resumed.id
  /\ \A i \in 1..Len(handlers) :
       handlers[i].pc = "done" =>
         handlers[i].broadcasts = 1 /\ handlers[i].errors = 0

\* a message is broadcast to its sender and to another open connection
C4_Witness ==
  /\ last.op = "add"
  /\ last.ok
  /\ Resumed.socket \in Connected
  /\ Connected # {Resumed.socket}
  /\ Resumed.message.text = <<"h", "i">>

\* C5: a sendMessage whose add fails is followed by no newMessage to all
\* connections and by exactly one newMessage to the sending connection only,
\* from "system", with the fixed text and without an id.
C5_PrivateError ==
  /\ (last.op = "add" /\ ~last.ok) =>
       /\ Len(out) = 1
       /\ out[1].event = "newMessage"
       /\ out[1].scope = "socket"
       /\ out[1].socket = Resumed.socket
       /\ out[1].recipients \subseteq {Resumed.socket}
       /\ out[1].data.senderId = SystemId
       /\ out[1].data.text = ErrorText
       /\ "id" \notin DOMAIN out[1].data
  /\ \A i \in 1..Len(handlers) :
       handlers[i].pc = "failed" =>
         handlers[i].broadcasts = 0 /\ handlers[i].errors = 1

\* an add fails while the sender and another connection are open
C5_Witness ==
  /\ last.op = "add"
  /\ ~last.ok
  /\ Resumed.socket \in Connected
  /\ Connected # {Resumed.socket}

\* C6: a sendMessage whose text is empty after trimming emits nothing and
\* attempts no add.
C6_BlankTextDropped ==
  (SentObject /\ trim(last.payload.text) = <<>>) =>
    /\ out = <<>>
    /\ Len(handlers) = last.sends

\* C7: a sendMessage with an empty senderId or an empty text is dropped: no
\* add is attempted, nothing is emitted and the registry is unchanged.
C7_EmptyFieldDropped ==
  (SentObject /\ (last.payload.senderId = <<>> \/ last.payload.text = <<>>)) =>
    /\ out = <<>>
    /\ Len(handlers) = last.sends
    /\ onlineUsers = last.users

\* a payload with a senderId and an empty text arrives while a user is online
C7_Witness ==
  /\ SentObject
  /\ last.payload.senderId # <<>>
  /\ last.payload.text = <<>>
  /\ onlineUsers # <<>>

\* C8: a newUser whose userId is empty or whitespace-only leaves the registry
\* as it was and emits nothing, neither a roster nor an error.
C8_BlankUserIdDropped ==
  (last.op = "newUser" /\ Blank(last.userId)) =>
    /\ onlineUsers = last.users
    /\ out = <<>>

\* a whitespace-only userId arrives while a user is online
C8_Witness ==
  /\ last.op = "newUser"
  /\ last.userId = <<" ">>
  /\ onlineUsers # <<>>

\* C9: a newUser for a userId that has an entry, sent on another connection,
\* overwrites the socketId of that entry in place: the roster keeps its
\* length and its order, and the other entries are unchanged.
C9_OverwriteInPlace ==
  (/\ last.op = "newUser"
   /\ \E k \in 1..Len(last.users) :
        /\ last.users[k].userId = last.userId
        /\ last.users[k].socketId # last.socket) =>
    /\ Len(onlineUsers) = Len(last.users)
    /\ \A j \in 1..Len(last.users) :
         onlineUsers[j] =
           IF last.users[j].userId = last.userId
             THEN [socketId |-> last.socket, userId |-> last.userId]
             ELSE last.users[j]

\* the first of two entries is taken over by another connection
C9_Witness ==
  /\ last.op = "newUser"
  /\ Len(last.users) = 2
  /\ last.users[1].userId = last.userId
  /\ last.users[1].socketId # last.socket

\* C10: the latest newUser of a userId decides its connection, and the
\* disconnect of a connection that no entry is mapped to leaves the registry
\* as it was.
C10_LastRegistrationWins ==
  /\ (last.op = "newUser" /\ ~Blank(last.userId)) =>
       SocketsOf(onlineUsers, last.userId) = << last.socket >>
  /\ (/\ last.op = "disconnect"
      /\ \A k \in 1..Len(last.users) : last.users[k].socketId # last.socket) =>
       onlineUsers = last.users

\* a connection closes after another connection took over its userId
C10_Witness ==
  /\ last.op = "disconnect"
  /\ last.claimed # NoUser
  /\ \A k \in 1..Len(last.users) : last.users[k].socketId # last.socket
  /\ \E k \in 1..Len(onlineUsers) :
       /\ onlineUsers[k].userId = last.claimed
       /\ sockets[onlineUsers[k].socketId] = "open"

\* C11: when a connection closes every entry with its socketId is removed,
\* so the socketId of every entry is that of an open connection.
C11_EntriesOfOpenSockets ==
  /\ \A k \in 1..Len(onlineUsers) : sockets[onlineUsers[k].socketId] = "open"
  /\ last.op = "disconnect" =>
       \A k \in 1..Len(onlineUsers) : onlineUsers[k].socketId # last.socket

\* a connection that held two entries closes while another one is open
C11_Witness ==
  /\ last.op = "disconnect"
  /\ Len(last.users) = Len(onlineUsers) + 2
  /\ Connected # {}

\* the userIds of a roster, in its order
UserIdsOf(users) == [k \in 1..Len(users) |-> users[k].userId]

\* C12: an accepted newUser emits, in the same step, exactly one usersOnline
\* to every open connection, the registering one included, with the whole
\* registry after the change; a new userId stands last, a userId that had an
\* entry keeps its place.
C12_RosterAfterRegister ==
  (last.op = "newUser" /\ ~Blank(last.userId)) =>
    /\ out = << [event |-> "usersOnline", scope |-> "io", socket |-> 0,
                 recipients |-> Connected, data |-> onlineUsers] >>
    /\ last.socket \in out[1].recipients
    /\ UserIdsOf(onlineUsers) =
         IF \E k \in 1..Len(last.users) : last.users[k].userId = last.userId
           THEN UserIdsOf(last.users)
           ELSE Append(UserIdsOf(last.users), last.userId)

\* a second userId registers while two connections are open
C12_Witness ==
  /\ last.op = "newUser"
  /\ Len(last.users) = 1
  /\ Len(onlineUsers) = 2
  /\ Connected = SocketIds

\* C13: every disconnect emits exactly one usersOnline with the resulting
\* registry to the connections that remain open, also when no entry was
\* removed.
C13_RosterAfterDisconnect ==
  last.op = "disconnect" =>
    /\ out = << [event |-> "usersOnline", scope |-> "io", socket |-> 0,
                 recipients |-> Connected, data |-> onlineUsers] >>
    /\ last.socket \notin out[1].recipients

\* a connection that never registered closes while a user is online
C13_Witness ==
  /\ last.op = "disconnect"
  /\ last.claimed = NoUser
  /\ onlineUsers = last.users
  /\ onlineUsers # <<>>
  /\ Connected # {}

\* C14: a fault raised while an event is handled is caught and the event is
\* dropped without notice: a sendMessage without a payload emits nothing to
\* any connection and leaves the registry as it was.
C14_FaultDroppedSilently ==
  (last.op = "sendMessage" /\ last.payload = Undefined) =>
    /\ out = <<>>
    /\ onlineUsers = last.users

\* C15: opening a connection delivers the current roster to that connection.
C15_RosterOnConnect ==
  last.op = "connection" =>
    \E k \in 1..Len(out) :
      /\ out[k].event = "usersOnline"
      /\ last.socket \in out[k].recipients

\* C16: a stored message is delivered to the clients as a receiveMessage
\* event.
C16_DeliveredAsReceiveMessage ==
  (last.op = "add" /\ last.ok) =>
    \E k \in 1..Len(out) :
      /\ out[k].event = "receiveMessage"
      /\ out[k].data.id = Resumed.id

\* the limit a history request asks for: its number, 100 when it gives none
AskedLimit == IF last.limit = <<>> THEN DefaultLimit ELSE last.limit[1]

\* C17: a history request returns at most limit messages (100 when no limit
\* is given): the limit stored messages with the greatest timestamps, oldest
\* first, for every collection and every limit.
C17_RecentHistory ==
  last.op \in {"getMessages", "getAllMessages"} =>
    /\ Len(last.messages) <= AskedLimit
    /\ Len(last.messages) >= AskedLimit \/ Len(last.messages) = Len(messages)
    /\ \A k \in 1..Len(last.messages) : last.messages[k] \in Docs
    /\ \A j, k \in 1..Len(last.messages) :
         j < k => /\ last.messages[j] # last.messages[k]
                  /\ last.messages[j].timestamp <= last.messages[k].timestamp
    /\ \A d \in Docs :
         (\A k \in 1..Len(last.messages) : last.messages[k] # d) =>
           \A k \in 1..Len(last.messages) :
             d.timestamp <= last.messages[k].timestamp

\* C18: appends of different connections are in flight together and nothing
\* orders their completions: every pending append can be the next to succeed,
\* so the message admitted second can be broadcast before the one admitted
\* first.
C18_CompletionsUnordered ==
  \A i \in 1..Len(handlers) :
    handlers[i].pc = "await" => ENABLED AddResolves(i)

\* the second message, with the later timestamp, has been broadcast while the
\* first, from another connection, is still being stored
C18_Witness ==
  /\ last.op = "add" /\ last.ok /\ last.handler = 2
  /\ handlers[1].pc = "await"
  /\ handlers[1].socket # handlers[2].socket
  /\ handlers[1].message.timestamp < handlers[2].message.timestamp
  /\ out[1].event = "newMessage"
  /\ out[1].data.timestamp = handlers[2].message.timestamp

\* the timestamps of the handlers follow the order of admission, a timestamp
\* is read after the handler is entered and before add is called, and the
\* stored document and the broadcast carry the handler's timestamp
C19_TimestampsInOrder ==
  /\ \A i, j \in 1..Len(handlers) :
       i < j => handlers[i].message.timestamp <= handlers[j].message.timestamp
  /\ (last.op = "sendMessage" /\ Len(handlers) = last.sends + 1) =>
       /\ handlers[Len(handlers)].pc = "await"
       /\ last.began <= handlers[Len(handlers)].message.timestamp
       /\ handlers[Len(handlers)].message.timestamp = now
  /\ (last.op = "add" /\ last.ok) =>
       /\ messages[Len(messages)].timestamp = Resumed.message.timestamp
       /\ out[1].data.timestamp = Resumed.message.timestamp

\* no step changes the message of a handler
C19_MessageKept ==
  \A i \in 1..Len(handlers) : handlers'[i].message = handlers[i].message

\* C19: timestamps are assigned at admission, before the append starts, they
\* are non-decreasing in admission order whatever the order of completion, and
\* a message's timestamp is the same at admission, in the stored document and
\* in the broadcast.
C19_AdmissionTimestamps == []C19_TimestampsInOrder /\ [][C19_MessageKept]_vars

\* the message admitted first is stored last, after the server time has
\* moved on, and keeps the earlier timestamp
C19_Witness ==
  /\ last.op = "add" /\ last.ok /\ last.handler = 1
  /\ Len(handlers) = 2
  /\ handlers[2].pc = "done"
  /\ handlers[1].message.timestamp < handlers[2].message.timestamp
  /\ messages[1].timestamp > messages[2].timestamp
  /\ now > handlers[1].message.timestamp

\* the handlers of a socket whose append is pending
InFlight(c) ==
  { i \in 1..Len(handlers) : handlers[i].socket = c /\ handlers[i].pc = "await" }

\* C20: a disconnect while the sender's append is in flight does not abort
\* it: the append can still succeed, the message is then stored and broadcast
\* to exactly the open connections, the closed sender receives nothing, and
\* the disconnect removes the entries and broadcasts the roster at once.
C20_NoCancellation ==
  /\ \A c \in SocketIds :
       (sockets[c] = "closed" /\ InFlight(c) # {}) =>
         \A i \in InFlight(c) : ENABLED AddResolves(i)
  /\ \A c \in SocketIds :
       (sockets[c] = "open" /\ InFlight(c) # {}) => ENABLED Disconnect(c)
  /\ (last.op = "add" /\ sockets[Resumed.socket] = "closed") =>
       /\ \A k \in 1..Len(out) : Resumed.socket \notin out[k].recipients
       /\ last.ok =>
            /\ Resumed.pc = "done"
            /\ messages[Len(messages)].id = Resumed.id
            /\ Len(out) = 1
            /\ out[1].event = "newMessage"
            /\ out[1].data.id = Resumed.id
            /\ out[1].recipients = Connected
  /\ (last.op = "disconnect" /\ InFlight(last.socket) # {}) =>
       /\ \A k \in 1..Len(onlineUsers) : onlineUsers[k].socketId # last.socket
       /\ Len(out) = 1
       /\ out[1].event = "usersOnline"
       /\ out[1].data = onlineUsers

\* the message of a sender that closed during the append reaches the other,
\* open connection
C20_Witness ==
  /\ last.op = "add" /\ last.ok
  /\ sockets[Resumed.socket] = "closed"
  /\ Connected # {}
  /\ out[1].recipients = Connected

\* the outcomes of a handler so far: nothing while add is pending, then one
\* broadcast or one private error; a document per succeeded add
C21_OneOutcome ==
  /\ \A i \in 1..Len(handlers) :
       /\ handlers[i].pc = "await" =>
            handlers[i].broadcasts = 0 /\ handlers[i].errors = 0
       /\ handlers[i].pc # "await" =>
            handlers[i].broadcasts + handlers[i].errors = 1
  /\ Len(messages) = Cardinality({ i \in 1..Len(handlers) : handlers[i].pc = "done" })
  /\ last.op \in {"connection", "newUser", "disconnect", "sendMessage"} =>
       \A k \in 1..Len(out) : out[k].event # "newMessage" \/ out[k].data.senderId = SystemId

\* a handler whose add has returned takes no further step
C21_NoRetry ==
  \A i \in 1..Len(handlers) :
    handlers[i].pc # "await" => handlers'[i] = handlers[i]

\* the add of handler i is pending
C21_Pending(i) == i <= Len(handlers) /\ handlers[i].pc = "await"

\* handler i has had its one outcome
C21_Settled(i) ==
  /\ i <= Len(handlers)
  /\ handlers[i].pc \in {"done", "failed"}
  /\ handlers[i].broadcasts + handlers[i].errors = 1

\* C21: an accepted sendMessage calls add once and never again; if add
\* returns, the handler ends with exactly one outcome, a broadcast or a
\* private error, and until add returns nothing is emitted for the message.
C21_ExactlyOneOutcome ==
  /\ []C21_OneOutcome
  /\ [][C21_NoRetry]_vars
  /\ \A i \in 1..MaxSends : C21_Pending(i) ~> C21_Settled(i)

\* one message was broadcast and the other's add has failed
C21_Witness ==
  /\ Len(handlers) = 2
  /\ handlers[1].pc = "failed" /\ handlers[2].pc = "done"
  /\ handlers[1].errors = 1 /\ handlers[2].broadcasts = 1
  /\ Len(messages) = 1

\* C22: what a sendMessage event does is decided by the payload, the socket
\* and the open connections alone, never by the registry: a valid payload is
\* admitted from an unregistered socket or from one registered under another
\* userId, and the broadcast carries the payload's senderId as it came.
C22_RegistryBlind ==
  /\ (last.op = "sendMessage" /\ last.payload = Undefined) =>
       /\ out = CatchBlock(last.socket, now, Connected)
       /\ Len(handlers) = last.sends
  /\ (SentObject /\ InvalidPayload(last.payload)) =>
       /\ out = <<>>
       /\ Len(handlers) = last.sends
  /\ (SentObject /\ ~InvalidPayload(last.payload)) =>
       /\ out = <<>>
       /\ Len(handlers) = last.sends + 1
       /\ handlers[Len(handlers)].socket = last.socket
       /\ handlers[Len(handlers)].message.senderId = last.payload.senderId
       /\ handlers[Len(handlers)].message.text = last.payload.text
  /\ (last.op = "add" /\ last.ok) =>
       out = Broadcast(Resumed.message, Resumed.id, Connected)
  /\ (last.op = "add" /\ ~last.ok) =>
       out = CatchBlock(Resumed.socket, now, Connected)

\* a socket registered as "b" has had its message broadcast under senderId
\* "a" while no entry of the registry belongs to "a"
C22_Witness ==
  /\ last.op = "add" /\ last.ok
  /\ claimed[Resumed.socket] = <<"b">>
  /\ ~ExistingUser(onlineUsers, <<"a">>)
  /\ out[1].data.senderId = <<"a">>

\* an open socket whose latest userId is now mapped to another socket
Displaced(c) ==
  /\ claimed[c] # NoUser
  /\ \E k \in 1..Len(onlineUsers) :
       onlineUsers[k].userId = claimed[c] /\ onlineUsers[k].socketId # c

\* C23: a newUser that overwrites a userId's socketId does not close the
\* socket that held it: that socket is still open, receives the roster of
\* the overwrite, and stays among the recipients of every later usersOnline
\* and newMessage broadcast.
C23_DisplacedStaysOpen ==
  /\ (last.op = "newUser" /\ ~InvalidUserId(last.userId)) =>
       \A k \in 1..Len(last.users) :
         last.users[k].userId = last.userId =>
           /\ sockets[last.users[k].socketId] = "open"
           /\ last.users[k].socketId \in out[1].recipients
  /\ \A c \in SocketIds :
       Displaced(c) =>
         /\ sockets[c] = "open"
         /\ \A k \in 1..Len(out) :
              out[k].scope = "io" => c \in out[k].recipients

\* a message is broadcast to a socket whose userId another socket has taken
C23_Witness ==
  /\ last.op = "add" /\ last.ok
  /\ \E c \in SocketIds : Displaced(c) /\ c \in out[1].recipients

\* C24: the userId that an open socket registered last has an entry in the
\* registry, whatever registers and disconnects other sockets made.
C24_PresenceOfOpenSockets ==
  \A c \in SocketIds :
    (sockets[c] = "open" /\ claimed[c] # NoUser) =>
      ExistingUser(onlineUsers, claimed[c])

\* C25: the roster an open socket received last is the registry as it is
\* now, entry by entry, whatever registers, disconnects and pending adds
\* came in between; a step that changes the registry delivers the new roster
\* to every open socket in the same step.
C25_RosterConsistent ==
  /\ \A c \in SocketIds :
       (sockets[c] = "open" /\ roster[c] # NoRoster) => roster[c] = << onlineUsers >>
  /\ (last.op \in {"newUser", "disconnect"} /\ onlineUsers # last.users) =>
       \A c \in Connected : roster[c] = << onlineUsers >>

\* after a register, a second register and a disconnect, with an add pending,
\* the remaining socket holds the roster of the registry
C25_Witness ==
  /\ last.op = "disconnect"
  /\ onlineUsers # <<>>
  /\ onlineUsers # last.users
  /\ \E c \in Connected : roster[c] = << onlineUsers >>
  /\ \E i \in 1..Len(handlers) : handlers[i].pc = "await"

\* the events of a kind among the emitted events
EventsOf(events, event) == { k \in 1..Len(events) : events[k].event = event }

\* a step of the message path keeps the registry and emits no roster; a step
\* of the registry keeps the collection and emits no message
C26_Frame ==
  /\ last'.op \in {"sendMessage", "add"} =>
       /\ onlineUsers' = onlineUsers
       /\ EventsOf(out', "usersOnline") = {}
  /\ last'.op \in {"newUser", "disconnect"} =>
       /\ messages' = messages
       /\ handlers' = handlers
       /\ EventsOf(out', "newMessage") = {}
  /\ last'.op = "connection" =>
       /\ onlineUsers' = onlineUsers
       /\ messages' = messages
       /\ out' = <<>>

\* C26: only newUser and disconnect change the registry: no step of
\* sendMessage handling (validation, admission, add succeeding or failing,
\* broadcast, private error) changes it or emits usersOnline, and no newUser
\* or disconnect stores a message or emits newMessage.
C26_RegistryFrame == [][C26_Frame]_vars

\* one add has succeeded and another has failed while the registry holds an
\* entry
C26_Witness ==
  /\ last.op = "add"
  /\ onlineUsers # <<>>
  /\ out # <<>>
  /\ \E i \in 1..Len(handlers) : handlers[i].pc = "done"
  /\ \E i \in 1..Len(handlers) : handlers[i].pc = "failed"

====
